---- MODULE Spec2Model ----
(***************************************************************************)
(* Model of the cycle labeler of processor_ci_utils (labeler/src):         *)
(*   - encode_jal, the J-format encoder of test_cycle.py;                  *)
(*   - the two instruction-memory responders (instr_mem_driver of          *)
(*     test_cycle.py and of cycle.py), one step per rising clock edge;     *)
(*   - test_pc_behavior / measure_pipeline_depth, the recorder and the     *)
(*     classifier, one step per rising clock edge they await.              *)
(*                                                                         *)
(* A 32-bit instruction word w is the pair <<b31, low31>> with             *)
(* w = b31 * 2^31 + low31, so that every bit of the word is kept while     *)
(* all arithmetic stays inside TLC's integers.                             *)
(***************************************************************************)
EXTENDS Integers, Sequences, FiniteSets, TLC

VARIABLES
    \* ---- encode_jal and the guarded call of the layout block
    j_op,          \* "init" | "encode_jal" | "layout": the last call made
    j_imm,         \* argument imm of the last call
    j_rd,          \* argument rd of the last call
    j_raised,      \* TRUE iff the last call left encode_jal by raise ValueError
    j_word,        \* encode_jal's return value (NoWord when it raised)
    j_jal_back,    \* jal_back after the try/except of the layout block
    j_aborted,     \* TRUE iff the ValueError left the layout block (run aborted)
    \* ---- the bus, as the responder finds it at the latest rising edge
    core_cyc, core_stb, core_we,   \* truth values of the request signals
    core_addr,     \* an address, or X when core_addr is not resolvable
    \* ---- the two signals the responder drives
    core_ack, core_data_in,
    \* ---- instr_mem_driver
    driver,        \* "test_cycle" | "cycle": whose instr_mem_driver runs
    start_addr, loop_start, branch_addr, finish_addr, jal_back,
    pending, pending_addr, pending_instr,
    loops_done,
    drv_at,        \* the await the task is suspended at: "serve" (line 56)
                   \* or "check" (line 73, inside the loop-closure window)
    check_i,       \* loop variable i of the window (0 outside it)
    drv_did,       \* what the task did at the latest edge
    \* ---- test_pc_behavior and measure_pipeline_depth (file = driver)
    tp_at,         \* "observe" | "classify" | "baseline" | "measure" |
                   \* "record" | "done" | "raised"
    cycle,         \* loop variable of the loop the task is in
    prev_pc, last_change, first_pc_seen, change_cycles,
    \* ---- the program counter as sampled so far (history of lines 238-241 /
    \*      120-123, kept to state what the recorder made of the samples)
    last_pc,       \* the latest resolved sample (None before the first)
    n_resolved,    \* resolved samples so far
    n_changes,     \* resolved samples that differ from the resolved sample
                   \* before them
    regfile_x1,    \* regfile[1] at the latest edge (X when not resolvable)
    baseline, issue_cycle, write_cycle,
    latency,       \* measure_pipeline_depth's return value
    measure_calls, \* calls of measure_pipeline_depth so far
    labels,        \* the labels file {processor_name}_labels.json
    writes,        \* final writes of existing_data to the file (lines 288-290 /
                   \* 177-179, cocotb_labeler.py:86-87) so far
    \* ---- the test as cocotb runs it (cocotb_labeler.processor_test and the
    \*      opening of test_pc_behavior)
    pt_at,         \* processor_test: "none" (not the caller) | "load" |
                   \* "aborted" | "test" | "done" | "raised"
    regfile_candidates,  \* length of the list read at cocotb_labeler.py:47-54
    tasks,         \* the tasks started with cocotb.start_soon so far
    rst_n,         \* X until it is driven, then 0 or 1
    tp_wrote,      \* the signals of dut that test_pc_behavior and
                   \* measure_pipeline_depth have assigned so far
    \* ---- main.main's batch (main.py:224-240)
    main_at,       \* "idle" | "submit" | "collect" | "done" | "crashed"
    futures,       \* per core, the state of the future of its core_labeler
                   \* call: "none" | "queued" | "running" | "returned" |
                   \* "raised"
    reported       \* per core, what main printed for it: "none" |
                   \* "processed" | "failed"

jvars == <<j_op, j_imm, j_rd, j_raised, j_word, j_jal_back, j_aborted>>
busvars == <<core_cyc, core_stb, core_we, core_addr>>
layoutvars == <<start_addr, loop_start, branch_addr, finish_addr, jal_back>>
pendvars == <<pending, pending_addr, pending_instr>>
drvvars == <<busvars, core_ack, core_data_in, driver, layoutvars, pendvars,
             loops_done, drv_at, check_i, drv_did>>

recvars == <<prev_pc, last_change, first_pc_seen, change_cycles>>
tracevars == <<last_pc, n_resolved, n_changes>>
measvars == <<regfile_x1, baseline, issue_cycle, write_cycle, latency>>
tpvars == <<tp_at, cycle, recvars, tracevars, measvars, measure_calls, labels, writes>>
\* what test_pc_behavior never touches once its tasks are started
ptvars == <<pt_at, regfile_candidates, tasks, rst_n, tp_wrote>>
batchvars == <<main_at, futures, reported>>
tpframe == <<core_cyc, core_we, core_ack, driver, layoutvars, pendvars,
             loops_done, drv_at, check_i, drv_did, ptvars, batchvars>>

nonjvars == <<drvvars, tpvars, ptvars, batchvars>>
nondrvvars == <<jvars, tpvars, ptvars, batchvars>>

vars == <<jvars, drvvars, tpvars, ptvars, batchvars>>

-----------------------------------------------------------------------------
(* Values                                                                  *)

None == -1               \* Python's None in a variable that holds an integer
                         \* (addresses and cycle numbers are never negative)
NoWord == <<2, 0>>       \* Python's None in a variable that holds a word
                         \* (b31 is never 2)

Pow2(n) == 2 ^ n

Word(b31, low31) == <<b31, low31>>

\* test_cycle.py:9-11
NOP == Word(0, 19)            \* 0x00000013
INSTR_A == Word(0, 5243027)   \* 0x00500093
INSTR_B == Word(0, 6291603)   \* 0x00600093
ADDI_X1_X0_5 == INSTR_A

OPCODE_JAL == 111             \* 0x6f

-----------------------------------------------------------------------------
(* encode_jal (test_cycle.py:14-37)                                        *)

\* encode_jal_raises with the upper bound taken inclusive
encode_jal_raises_inclusive(imm) == ~(-(Pow2(20)) <= imm /\ imm <= Pow2(20))

\* line 23: if not (-(1 << 20) <= imm < (1 << 20)): raise ValueError
encode_jal_raises(imm) == ~(-(Pow2(20)) <= imm /\ imm < Pow2(20))

\* line 27: imm & ((1 << 21) - 1), the 21-bit two's complement of imm
imm_u_of(imm) == imm % Pow2(21)

\* lines 30-33: the four fields of the J-format immediate
imm20_of(imm_u) == (imm_u \div Pow2(20)) % 2
imm10_1_of(imm_u) == (imm_u \div 2) % 1024
imm11_of(imm_u) == (imm_u \div Pow2(11)) % 2
imm19_12_of(imm_u) == (imm_u \div Pow2(12)) % 256

\* encode_jal with imm[10:1] taken from bit 0 instead of bit 1
encode_jal_bit0(imm, rd) ==
    LET imm_u == imm % Pow2(21)
    IN  <<(imm_u \div Pow2(20)) % 2,
          (imm_u % 1024) * Pow2(21)
          + ((imm_u \div Pow2(11)) % 2) * Pow2(20)
          + ((imm_u \div Pow2(12)) % 256) * Pow2(12)
          + (rd % 32) * Pow2(7)
          + 111>>

\* lines 35-37: the fields are disjoint bit ranges, so | is +; bit 31 is imm20
encode_jal(imm, rd) ==
    LET imm_u == imm_u_of(imm)
    IN  Word(imm20_of(imm_u),
             imm10_1_of(imm_u) * Pow2(21)
             + imm11_of(imm_u) * Pow2(20)
             + imm19_12_of(imm_u) * Pow2(12)
             + (rd % 32) * Pow2(7)
             + OPCODE_JAL)

\* test_cycle.py:106-110: try: jal_back = encode_jal(imm, rd=0)
\*                        except ValueError: log the error; jal_back = NOP
\* The handler swallows the error: the run goes on with NOP as the jump word.
jal_back_of(imm) == IF encode_jal_raises(imm) THEN NOP ELSE encode_jal(imm, 0)
layout_aborts(imm) == FALSE

-----------------------------------------------------------------------------
(* Inputs of the encoder                                                   *)

MaxSmallImm == 13     \* small immediates -2*MaxSmallImm .. 2*MaxSmallImm
MaxBit == 20          \* single-bit immediates 2^k and -(2^k), k <= MaxBit

ImmSet ==
    (-(2 * MaxSmallImm) .. 2 * MaxSmallImm)
    \cup {Pow2(k) : k \in 1..MaxBit} \cup {-(Pow2(k)) : k \in 1..MaxBit}
    \cup {Pow2(20) - 2, Pow2(20) - 1, Pow2(20) + 1, Pow2(20) + 2,
          -(Pow2(20)) + 1, -(Pow2(20)) + 2, -(Pow2(20)) - 1, -(Pow2(20)) - 2}

RdSet == {0, 1, 5, 31}

JInit ==
    /\ j_op = "init"
    /\ j_imm = 0
    /\ j_rd = 0
    /\ j_raised = FALSE
    /\ j_word = NoWord
    /\ j_jal_back = NoWord
    /\ j_aborted = FALSE

\* one call encode_jal(imm, rd)
CallEncodeJal ==
    \E imm \in ImmSet, rd \in RdSet :
        /\ j_op' = "encode_jal"
        /\ j_imm' = imm
        /\ j_rd' = rd
        /\ j_raised' = encode_jal_raises(imm)
        /\ j_word' = IF encode_jal_raises(imm) THEN NoWord ELSE encode_jal(imm, rd)
        /\ j_jal_back' = NoWord
        /\ j_aborted' = FALSE
        /\ UNCHANGED nonjvars

\* the guarded call of the layout block (test_cycle.py:105-110) on an immediate
CallLayoutJal ==
    \E imm \in ImmSet :
        /\ j_op' = "layout"
        /\ j_imm' = imm
        /\ j_rd' = 0
        /\ j_raised' = encode_jal_raises(imm)
        /\ j_word' = IF encode_jal_raises(imm) THEN NoWord ELSE encode_jal(imm, 0)
        /\ j_jal_back' = jal_back_of(imm)
        /\ j_aborted' = layout_aborts(imm)
        /\ UNCHANGED nonjvars

JNext == CallEncodeJal \/ CallLayoutJal

-----------------------------------------------------------------------------
(* The bus                                                                 *)

X == -2                  \* the value of a signal that is not resolvable
                         \* (an address is never negative)

MaxAddrIdx == 10         \* the last word address is 4 * MaxAddrIdx

\* the addresses the core may present: the layout of a core that starts at 0
\* (INSTR_A, INSTR_B, loop_start, a filler, branch, finish), the addresses
\* past it, and the first address of prog
AddrSet == {0, 4, 8, 12, 32, 36} \cup {4 * i : i \in 10..MaxAddrIdx} \cup {128}

\* the core drives the four request signals before the edge
BusInput(cyc, stb, we, addr) ==
    /\ core_cyc' = cyc
    /\ core_stb' = stb
    /\ core_we' = we
    /\ core_addr' = addr

\* test_cycle.py:74,92 / cycle.py:21: core_cyc and core_stb and not core_we
FetchRequest(cyc, stb, we) == cyc /\ stb /\ ~we

\* .is_resolvable
is_resolvable(v) == v # X

-----------------------------------------------------------------------------
(* instr_mem_driver of test_cycle.py (lines 39-137)                        *)

required_loops == 2      \* the argument required_loops (25 in test_pc_behavior)
jump_check_cycles == 12  \* test_cycle.py:39, the default of the argument

\* instruction_map that keeps serving the jump word after the last loop
instruction_map_no_stop(addr, sa, ba, fa, jb, ld) ==
    IF addr = sa + 0 THEN INSTR_A
    ELSE IF addr = sa + 4 THEN INSTR_B
    ELSE IF addr \in {sa + 8, sa + 12, sa + 16, sa + 20, sa + 24, sa + 28} THEN NOP
    ELSE IF addr = ba THEN jb
    ELSE NOP

\* lines 116-132: the instruction map, for a request at addr
instruction_map(addr, sa, ba, fa, jb, ld) ==
    IF addr = sa + 0 THEN INSTR_A
    ELSE IF addr = sa + 4 THEN INSTR_B
    ELSE IF addr \in {sa + 8, sa + 12, sa + 16, sa + 20, sa + 24, sa + 28} THEN NOP
    ELSE IF addr = ba THEN (IF ld < required_loops THEN jb ELSE NOP)
    ELSE IF addr = fa THEN NOP
    ELSE NOP

\* lines 40-53
TDriverInit ==
    /\ core_data_in = Word(0, 0)
    /\ core_ack = 0
    /\ start_addr = None /\ loop_start = None /\ branch_addr = None
    /\ finish_addr = None /\ jal_back = NoWord
    /\ pending = FALSE /\ pending_addr = None /\ pending_instr = NoWord
    /\ loops_done = 0
    /\ drv_at = "serve" /\ check_i = 0

\* what the responder finds on the bus at an edge
BusSet == BOOLEAN \X BOOLEAN \X BOOLEAN \X (AddrSet \cup {X})

\* TDeliverOn that looks the word up again, at the address now on the bus
TDeliverOn_BusAddr(cyc, stb, we, addr) ==
    /\ driver = "test_cycle" /\ drv_at = "serve" /\ pending
    /\ core_data_in' = IF is_resolvable(addr)
                       THEN instruction_map(addr, start_addr, branch_addr,
                                            finish_addr, jal_back, loops_done)
                       ELSE pending_instr
    /\ core_ack' = 1
    /\ pending' = FALSE
    /\ IF pending_addr = branch_addr /\ pending_instr = jal_back /\ jump_check_cycles > 0
       THEN drv_at' = "check"
       ELSE drv_at' = "serve"
    /\ check_i' = 0
    /\ drv_did' = "deliver"
    /\ UNCHANGED <<driver, layoutvars, pending_addr, pending_instr, loops_done>>

\* TDeliverOn that goes on to sample the request present at the edge
TDeliverOn_AndSample(cyc, stb, we, addr) ==
    /\ driver = "test_cycle" /\ drv_at = "serve" /\ pending
    /\ core_data_in' = pending_instr
    /\ core_ack' = 1
    /\ IF FetchRequest(cyc, stb, we) /\ is_resolvable(addr)
       THEN /\ pending' = TRUE
            /\ pending_addr' = addr
            /\ pending_instr' = instruction_map(addr, start_addr, branch_addr,
                                                finish_addr, jal_back, loops_done)
       ELSE /\ pending' = FALSE
            /\ UNCHANGED <<pending_addr, pending_instr>>
    /\ drv_at' = "serve"
    /\ check_i' = 0
    /\ drv_did' = "deliver"
    /\ UNCHANGED <<driver, layoutvars, loops_done>>

\* lines 56-66, 86: an edge with a read pending: deliver it; a delivered
\* jump word opens the loop-closure window (lines 68-72)
TDeliverOn(cyc, stb, we, addr) ==
    /\ driver = "test_cycle" /\ drv_at = "serve" /\ pending
    /\ core_data_in' = pending_instr
    /\ core_ack' = 1
    /\ pending' = FALSE
    /\ IF pending_addr = branch_addr /\ pending_instr = jal_back /\ jump_check_cycles > 0
       THEN drv_at' = "check"
       ELSE drv_at' = "serve"
    /\ check_i' = 0
    /\ drv_did' = "deliver"
    /\ UNCHANGED <<driver, layoutvars, pending_addr, pending_instr, loops_done>>

\* TCheckOn that takes a request at any resolved address for the jump back
TCheckOn_AnyAddr(cyc, stb, we, addr) ==
    /\ driver = "test_cycle" /\ drv_at = "check"
    /\ IF FetchRequest(cyc, stb, we) /\ is_resolvable(addr)
       THEN /\ loops_done' = loops_done + 1
            /\ drv_at' = "serve"
            /\ check_i' = 0
       ELSE /\ loops_done' = loops_done
            /\ IF check_i + 1 < jump_check_cycles
               THEN drv_at' = "check" /\ check_i' = check_i + 1
               ELSE drv_at' = "serve" /\ check_i' = 0
    /\ drv_did' = "check"
    /\ UNCHANGED <<core_ack, core_data_in, driver, layoutvars, pendvars>>

\* TCheckOn with a window of one edge more than range(jump_check_cycles)
TCheckOn_OneMore(cyc, stb, we, addr) ==
    /\ driver = "test_cycle" /\ drv_at = "check"
    /\ IF FetchRequest(cyc, stb, we) /\ is_resolvable(addr) /\ addr = loop_start
       THEN /\ loops_done' = loops_done + 1
            /\ drv_at' = "serve"
            /\ check_i' = 0
       ELSE /\ loops_done' = loops_done
            /\ IF check_i < jump_check_cycles
               THEN drv_at' = "check" /\ check_i' = check_i + 1
               ELSE drv_at' = "serve" /\ check_i' = 0
    /\ drv_did' = "check"
    /\ UNCHANGED <<core_ack, core_data_in, driver, layoutvars, pendvars>>

\* lines 72-84: one edge of the window that follows a delivered jump word
TCheckOn(cyc, stb, we, addr) ==
    /\ driver = "test_cycle" /\ drv_at = "check"
    /\ IF FetchRequest(cyc, stb, we) /\ is_resolvable(addr) /\ addr = loop_start
       THEN /\ loops_done' = loops_done + 1      \* observed: break
            /\ drv_at' = "serve"
            /\ check_i' = 0
       ELSE /\ loops_done' = loops_done
            /\ IF check_i + 1 < jump_check_cycles
               THEN drv_at' = "check" /\ check_i' = check_i + 1
               ELSE drv_at' = "serve" /\ check_i' = 0   \* not observed
    /\ drv_did' = "check"
    /\ UNCHANGED <<core_ack, core_data_in, driver, layoutvars, pendvars>>

\* lines 56, 89-93: no read pending and no fetch request on the bus
TNoRequestOn(cyc, stb, we, addr) ==
    /\ driver = "test_cycle" /\ drv_at = "serve" /\ ~pending
    /\ ~FetchRequest(cyc, stb, we)
    /\ core_ack' = 0
    /\ drv_did' = "norequest"
    /\ UNCHANGED <<core_data_in, driver, layoutvars, pendvars, loops_done, drv_at, check_i>>

\* TUnresolvedOn that returns to the await before core_ack is deasserted
TUnresolvedOn_KeepAck(cyc, stb, we, addr) ==
    /\ driver = "test_cycle" /\ drv_at = "serve" /\ ~pending
    /\ FetchRequest(cyc, stb, we) /\ ~is_resolvable(addr)
    /\ drv_did' = "unresolved"
    /\ UNCHANGED <<core_ack, core_data_in, driver, layoutvars, pendvars,
                   loops_done, drv_at, check_i>>

\* lines 56, 89-95: a fetch request whose address is not resolvable
TUnresolvedOn(cyc, stb, we, addr) ==
    /\ driver = "test_cycle" /\ drv_at = "serve" /\ ~pending
    /\ FetchRequest(cyc, stb, we) /\ ~is_resolvable(addr)
    /\ core_ack' = 0
    /\ drv_did' = "unresolved"
    /\ UNCHANGED <<core_data_in, driver, layoutvars, pendvars, loops_done, drv_at, check_i>>

\* TSampleOn that derives the layout from every request
TSampleOn_Relayout(cyc, stb, we, addr) ==
    /\ driver = "test_cycle" /\ drv_at = "serve" /\ ~pending
    /\ FetchRequest(cyc, stb, we) /\ is_resolvable(addr)
    /\ start_addr' = addr
    /\ loop_start' = addr + 8
    /\ branch_addr' = addr + 32
    /\ finish_addr' = addr + 36
    /\ jal_back' = jal_back_of((addr + 8) - (addr + 32))
    /\ pending' = TRUE
    /\ pending_addr' = addr
    /\ pending_instr' = instruction_map(addr, start_addr', branch_addr',
                                        finish_addr', jal_back', loops_done)
    /\ core_ack' = 0
    /\ drv_did' = "sample"
    /\ UNCHANGED <<core_data_in, driver, loops_done, drv_at, check_i>>

\* lines 56, 89-137: a fetch request with an address: derive the layout on
\* the first one, look the word up and queue it for the next edge
TSampleOn(cyc, stb, we, addr) ==
    /\ driver = "test_cycle" /\ drv_at = "serve" /\ ~pending
    /\ FetchRequest(cyc, stb, we) /\ is_resolvable(addr)
    /\ IF start_addr = None
       THEN /\ start_addr' = addr
            /\ loop_start' = addr + 8
            /\ branch_addr' = addr + 32
            /\ finish_addr' = addr + 36
            /\ jal_back' = jal_back_of((addr + 8) - (addr + 32))
       ELSE UNCHANGED layoutvars
    /\ pending' = TRUE
    /\ pending_addr' = addr
    /\ pending_instr' = instruction_map(addr, start_addr', branch_addr',
                                        finish_addr', jal_back', loops_done)
    /\ core_ack' = 0
    /\ drv_did' = "sample"
    /\ UNCHANGED <<core_data_in, driver, loops_done, drv_at, check_i>>

\* the responder alone, on whatever the bus shows at the edge
TDeliver ==
    \E b \in BusSet :
        /\ BusInput(b[1], b[2], b[3], b[4])
        /\ TDeliverOn(b[1], b[2], b[3], b[4])
        /\ UNCHANGED nondrvvars

TCheckEdge ==
    \E b \in BusSet :
        /\ BusInput(b[1], b[2], b[3], b[4])
        /\ TCheckOn(b[1], b[2], b[3], b[4])
        /\ UNCHANGED nondrvvars

TNoRequest ==
    \E b \in BusSet :
        /\ BusInput(b[1], b[2], b[3], b[4])
        /\ TNoRequestOn(b[1], b[2], b[3], b[4])
        /\ UNCHANGED nondrvvars

TUnresolved ==
    \E b \in BusSet :
        /\ BusInput(b[1], b[2], b[3], b[4])
        /\ TUnresolvedOn(b[1], b[2], b[3], b[4])
        /\ UNCHANGED nondrvvars

TSample ==
    \E b \in BusSet :
        /\ BusInput(b[1], b[2], b[3], b[4])
        /\ TSampleOn(b[1], b[2], b[3], b[4])
        /\ UNCHANGED nondrvvars

-----------------------------------------------------------------------------
(* instr_mem_driver of cycle.py (lines 9-31)                               *)

\* cycle.py:9-13, 27: prog.get(addr, 0x00000013)
prog_get(addr) ==
    IF addr = 128 THEN Word(0, 5243027)    \* 0x00000080: 0x00500093
    ELSE IF addr = 132 THEN Word(0, 19)    \* 0x00000084: 0x00000013
    ELSE IF addr = 136 THEN Word(0, 19)    \* 0x00000088: 0x00000013
    ELSE Word(0, 19)

\* cycle.py:17-18; the layout and the queue of test_cycle.py do not exist here
CDriverInit ==
    /\ core_data_in = Word(0, 0)
    /\ core_ack = 0
    /\ start_addr = None /\ loop_start = None /\ branch_addr = None
    /\ finish_addr = None /\ jal_back = NoWord
    /\ pending = FALSE /\ pending_addr = None /\ pending_instr = NoWord
    /\ loops_done = 0
    /\ drv_at = "serve" /\ check_i = 0

\* cycle.py:20-29: a fetch request with an address is answered at this edge
CServe ==
    /\ driver = "cycle"
    /\ \E cyc \in BOOLEAN, stb \in BOOLEAN, we \in BOOLEAN, addr \in AddrSet :
        /\ FetchRequest(cyc, stb, we)
        /\ BusInput(cyc, stb, we, addr)
        /\ core_data_in' = prog_get(addr)
    /\ core_ack' = 1
    /\ drv_did' = "sample"
    /\ UNCHANGED <<driver, layoutvars, pendvars, loops_done, drv_at, check_i>>
    /\ UNCHANGED nondrvvars

\* cycle.py:20-26: a fetch request without an address: continue, which
\* leaves both driven signals as they are
CUnresolved ==
    /\ driver = "cycle"
    /\ \E cyc \in BOOLEAN, stb \in BOOLEAN, we \in BOOLEAN :
        /\ FetchRequest(cyc, stb, we)
        /\ BusInput(cyc, stb, we, X)
    /\ drv_did' = "unresolved"
    /\ UNCHANGED <<core_ack, core_data_in, driver, layoutvars, pendvars,
                   loops_done, drv_at, check_i>>
    /\ UNCHANGED nondrvvars

\* cycle.py:20-21, 30-31: no fetch request
CNoRequest ==
    /\ driver = "cycle"
    /\ \E cyc \in BOOLEAN, stb \in BOOLEAN, we \in BOOLEAN, addr \in AddrSet \cup {X} :
        /\ ~FetchRequest(cyc, stb, we)
        /\ BusInput(cyc, stb, we, addr)
    /\ core_ack' = 0
    /\ drv_did' = "norequest"
    /\ UNCHANGED <<core_data_in, driver, layoutvars, pendvars, loops_done, drv_at, check_i>>
    /\ UNCHANGED nondrvvars

-----------------------------------------------------------------------------
(* The responders on an arbitrary core                                     *)
(* The bus variables hold what the running task read at the latest edge;   *)
(* a signal it did not read at that edge keeps its value.                  *)

\* before the first edge the bus has not been looked at
BusInit ==
    /\ core_cyc = FALSE /\ core_stb = FALSE /\ core_we = FALSE /\ core_addr = X
    /\ drv_did = "init"

DrvInit ==
    /\ driver \in {"test_cycle", "cycle"}
    /\ BusInit
    /\ IF driver = "test_cycle" THEN TDriverInit ELSE CDriverInit

DrvNext ==
    \/ TDeliver \/ TCheckEdge \/ TNoRequest \/ TUnresolved \/ TSample
    \/ CServe \/ CUnresolved \/ CNoRequest

-----------------------------------------------------------------------------
(* The labels file                                                         *)

\* an entry of the file is a record of strings: the value of a key, or
\* "nokey"; depth is the number inside pipeline = {"depth": n} (0 otherwise);
\* other stands for the keys test_pc_behavior has no verdict for
\* (license_types, bits, cache, language, ...)
NoEntry == [multicycle |-> "nokey", pipeline |-> "nokey", depth |-> 0,
            singlecycle |-> "nokey", bits |-> "nokey", other |-> "nokey"]

\* main.py:85-96: the entry generate_labels_file writes before the simulation
PlaceholderEntry == [multicycle |-> "Undetected", pipeline |-> "Undetected",
                     depth |-> 0, singlecycle |-> "nokey",
                     bits |-> "Undetected", other |-> "kept"]

\* the file: absent, not JSON, or a JSON object with or without the entry of
\* processor_name (has = FALSE: existing_data[processor_name] is a KeyError);
\* rest stands for the entries of the other processors: "kept" while they
\* are what the file held, "nokey" when there are none
File(state, has, entry, rest) ==
    [state |-> state, has |-> has, entry |-> entry, rest |-> rest]

\* json.load of {}
EmptyData == File("json", FALSE, NoEntry, "nokey")

LabelsFiles ==
    {File("absent", FALSE, NoEntry, "nokey"), File("corrupt", FALSE, NoEntry, "nokey"),
     File("json", FALSE, NoEntry, "kept"), File("json", TRUE, PlaceholderEntry, "kept")}

\* test_cycle.py:262-266: existing_data after the read; a file that is absent
\* or not JSON reads as {} (cycle.py:145-147 reads a JSON file the same way)
existing_data_of(f) == IF f.state = "json" THEN f ELSE EmptyData

\* test_cycle.py:273-285: existing_data[processor_name] = {three keys}
replace_entry(d, mc, pl, dp, sc) ==
    File("json", TRUE, [multicycle |-> mc, pipeline |-> pl, depth |-> dp,
                        singlecycle |-> sc, bits |-> "nokey",
                        other |-> "nokey"], d.rest)

\* cycle.py:164-175: existing_data[processor_name]["multicycle"] = ..;
\* existing_data[processor_name]["pipeline"] = .. (the entry must exist)
update_entry(d, mc, pl, dp) ==
    File("json", TRUE, [d.entry EXCEPT !.multicycle = mc, !.pipeline = pl, !.depth = dp],
         d.rest)

-----------------------------------------------------------------------------
(* test_pc_behavior: the recorder (test_cycle.py:229-254, cycle.py:112-153) *)

ObserveCycles == 6       \* stands for range(200) / range(30)
MeasureCycles == 2       \* stands for max_cycles = 400 / 200

\* the program counters the core shows while it is observed
PcSet == {0, 4}
\* the values of regfile[1]
RegSet == {0, 5}
\* what the core may find on core_data_in: the words of the responders, or X
XWord == <<3, 0>>
DataSet == {ADDI_X1_X0_5, NOP, XWord}

\* lines 254 / 153: filtered = [d for d in change_cycles if d > 0]
filtered_of(cc) == SelectSeq(cc, LAMBDA d : d > 0)

\* lines 268 / 155: filtered and all(d == 1 for d in filtered)
pipelined_candidate(f) == Len(f) > 0 /\ \A k \in 1..Len(f) : f[k] = 1

TpLocals ==
    /\ cycle = 0
    /\ prev_pc = None /\ last_change = None /\ first_pc_seen = None
    /\ change_cycles = <<>>
    /\ last_pc = None /\ n_resolved = 0 /\ n_changes = 0
    /\ regfile_x1 = X /\ baseline = None
    /\ issue_cycle = None /\ write_cycle = None /\ latency = None
    /\ measure_calls = 0
    /\ labels \in LabelsFiles
    /\ writes = 0

\* at the release of reset, before the first edge of the window
TpInit == tp_at = "observe" /\ TpLocals

\* a window that takes one edge more than range(ObserveCycles)
AfterObserve_OneMore(c) == IF c < ObserveCycles THEN "observe" ELSE "classify"

\* after the last edge of a loop the task runs on to the code behind it
AfterObserve(c) == IF c + 1 < ObserveCycles THEN "observe" ELSE "classify"

\* the sample of core_addr taken at an edge (lines 238-241 / 120-123), added
\* to the history of the samples
TraceStep(pc) ==
    IF ~is_resolvable(pc) THEN UNCHANGED tracevars
    ELSE /\ last_pc' = pc
         /\ n_resolved' = n_resolved + 1
         /\ n_changes' = IF last_pc # None /\ pc # last_pc
                         THEN n_changes + 1 ELSE n_changes

\* ObserveOnT that takes a sample that is not resolvable for address 0
ObserveOnT_Coerce(pc) ==
    /\ tp_at = "observe"
    /\ LET v == IF is_resolvable(pc) THEN pc ELSE 0
       IN  IF first_pc_seen = None
           THEN /\ first_pc_seen' = v /\ prev_pc' = v /\ last_change' = cycle
                /\ UNCHANGED change_cycles
           ELSE IF v # prev_pc
           THEN /\ change_cycles' = Append(change_cycles, cycle - last_change)
                /\ last_change' = cycle /\ prev_pc' = v
                /\ UNCHANGED first_pc_seen
           ELSE UNCHANGED recvars
    /\ TraceStep(pc)
    /\ cycle' = cycle + 1
    /\ tp_at' = AfterObserve(cycle)
    /\ UNCHANGED <<measvars, measure_calls, labels, writes>>

\* ObserveOnT that keeps measuring from the baseline sample
ObserveOnT_FromBaseline(pc) ==
    /\ tp_at = "observe"
    /\ IF ~is_resolvable(pc) THEN UNCHANGED recvars
       ELSE IF first_pc_seen = None
       THEN /\ first_pc_seen' = pc /\ prev_pc' = pc /\ last_change' = cycle
            /\ UNCHANGED change_cycles
       ELSE IF pc # prev_pc
       THEN /\ change_cycles' = Append(change_cycles, cycle - last_change)
            /\ prev_pc' = pc
            /\ UNCHANGED <<first_pc_seen, last_change>>
       ELSE UNCHANGED recvars
    /\ TraceStep(pc)
    /\ cycle' = cycle + 1
    /\ tp_at' = AfterObserve(cycle)
    /\ UNCHANGED <<measvars, measure_calls, labels, writes>>

\* one edge of the observation loop, test_cycle.py:236-252, with pc the
\* value of core_addr at the edge
ObserveOnT(pc) ==
    /\ tp_at = "observe"
    /\ IF ~is_resolvable(pc) THEN UNCHANGED recvars
       ELSE IF first_pc_seen = None
       THEN /\ first_pc_seen' = pc /\ prev_pc' = pc /\ last_change' = cycle
            /\ UNCHANGED change_cycles
       ELSE IF pc # prev_pc
       THEN /\ change_cycles' = Append(change_cycles, cycle - last_change)
            /\ last_change' = cycle /\ prev_pc' = pc
            /\ UNCHANGED first_pc_seen
       ELSE UNCHANGED recvars
    /\ TraceStep(pc)
    /\ cycle' = cycle + 1
    /\ tp_at' = AfterObserve(cycle)
    /\ UNCHANGED <<measvars, measure_calls, labels, writes>>

\* one edge of the observation loop, cycle.py:118-137
ObserveOnC(pc) ==
    /\ tp_at = "observe"
    /\ IF ~is_resolvable(pc) THEN UNCHANGED recvars
       ELSE IF first_pc_seen = None
       THEN /\ first_pc_seen' = pc
            /\ UNCHANGED <<prev_pc, last_change, change_cycles>>
       ELSE IF prev_pc = None
       THEN /\ prev_pc' = pc /\ last_change' = cycle
            /\ UNCHANGED <<first_pc_seen, change_cycles>>
       ELSE IF pc # prev_pc
       THEN /\ change_cycles' = Append(change_cycles, cycle - last_change)
            /\ last_change' = cycle /\ prev_pc' = pc
            /\ UNCHANGED first_pc_seen
       ELSE UNCHANGED recvars
    /\ TraceStep(pc)
    /\ cycle' = cycle + 1
    /\ tp_at' = AfterObserve(cycle)
    /\ UNCHANGED <<measvars, measure_calls, labels, writes>>

\* the recorder alone, on whatever core_addr shows at the edge
ObserveEdgeT ==
    /\ driver = "test_cycle"
    /\ \E pc \in PcSet \cup {X} :
        /\ core_addr' = pc
        /\ ObserveOnT(pc)
    /\ UNCHANGED <<core_stb, core_data_in>>
    /\ UNCHANGED <<jvars, tpframe>>

ObserveEdgeC ==
    /\ driver = "cycle"
    /\ \E pc \in PcSet \cup {X} :
        /\ core_addr' = pc
        /\ ObserveOnC(pc)
    /\ UNCHANGED <<core_stb, core_data_in>>
    /\ UNCHANGED <<jvars, tpframe>>

-----------------------------------------------------------------------------
(* test_pc_behavior: the classifier                                        *)

\* test_cycle.py:254-270, 283-293: read the file; a pipelined candidate goes
\* on to measure_pipeline_depth, anything else is recorded as multicycle
ClassifyT ==
    /\ driver = "test_cycle" /\ tp_at = "classify"
    /\ IF pipelined_candidate(filtered_of(change_cycles))
       THEN /\ tp_at' = "baseline"
            /\ measure_calls' = measure_calls + 1
            /\ UNCHANGED <<labels, writes>>
       ELSE /\ tp_at' = "done"
            /\ labels' = replace_entry(existing_data_of(labels), "True", "False", 0, "False")
            /\ writes' = writes + 1
            /\ UNCHANGED measure_calls
    /\ cycle' = 0
    /\ UNCHANGED <<busvars, core_data_in, recvars, tracevars, measvars>>
    /\ UNCHANGED <<jvars, tpframe>>

\* cycle.py:139-158, 172-182: an absent file is created as {} first; a file
\* that is not JSON reaches the handler of line 148, whose logging.warning is
\* a NameError (cycle.py does not import logging); the multicycle branch
\* assigns into existing_data[processor_name], which is a KeyError when the
\* file has no entry for the processor
ClassifyC ==
    /\ driver = "cycle" /\ tp_at = "classify"
    /\ LET created == IF labels.state = "absent"
                       THEN EmptyData ELSE labels
           d == existing_data_of(created)
       IN  IF created.state = "corrupt"
           THEN /\ tp_at' = "raised"
                /\ UNCHANGED <<labels, writes, measure_calls>>
           ELSE IF pipelined_candidate(filtered_of(change_cycles))
           THEN /\ tp_at' = "baseline"
                /\ measure_calls' = measure_calls + 1
                /\ labels' = created
                /\ writes' = writes
           ELSE IF d.has
           THEN /\ tp_at' = "done"
                /\ labels' = update_entry(d, "True", "False", 0)
                /\ writes' = writes + 1
                /\ UNCHANGED measure_calls
           ELSE /\ tp_at' = "raised"
                /\ labels' = created
                /\ UNCHANGED <<writes, measure_calls>>
    /\ cycle' = 0
    /\ UNCHANGED <<busvars, core_data_in, recvars, tracevars, measvars>>
    /\ UNCHANGED <<jvars, tpframe>>

-----------------------------------------------------------------------------
(* measure_pipeline_depth (test_cycle.py:142-199, cycle.py:34-94)           *)

\* lines 150-154 / 42-46: the edge the baseline of regfile[1] is taken at,
\* with reg the value of regfile[1] at the edge; a value that is not
\* resolvable gives the baseline 0
BaselineOn(reg) ==
    /\ tp_at = "baseline"
    /\ regfile_x1' = reg
    /\ baseline' = IF is_resolvable(reg) THEN reg ELSE 0
    /\ tp_at' = IF MeasureCycles > 0 THEN "measure" ELSE "record"
    /\ cycle' = 0
    /\ UNCHANGED <<recvars, tracevars, issue_cycle, write_cycle, latency,
                   measure_calls, labels, writes>>

BaselineEdge ==
    /\ \E reg \in RegSet \cup {X} : BaselineOn(reg)
    /\ UNCHANGED <<busvars, core_data_in>>
    /\ UNCHANGED <<jvars, tpframe>>

\* latency_of without the + 1
latency_of_exclusive(ic, wc) == IF ic = None \/ wc = None THEN None ELSE wc - ic

\* lines 192-199 / 87-94: the value returned with these two cycles
latency_of(ic, wc) == IF ic = None \/ wc = None THEN None ELSE wc - ic + 1

\* test_cycle.py:175: the ADDI is recognised by the word on core_data_in
issue_seen_T(data, stb) == data # XWord /\ data = ADDI_X1_X0_5 /\ stb

\* cycle.py:66: the ADDI is recognised by its address 0x00000080
issue_seen_C(pc, stb) == pc = 128 /\ stb

\* MeasureOnT that takes the register change whether or not the ADDI was seen
MeasureOnT_WriteAnytime(pc, stb, data, reg) ==
    /\ tp_at = "measure"
    /\ regfile_x1' = reg
    /\ LET issue_now == issue_cycle = None /\ issue_seen_T(data, stb)
           ic == IF issue_now THEN cycle ELSE issue_cycle
           written == is_resolvable(reg) /\ reg # baseline
           wc == IF written THEN cycle ELSE write_cycle
       IN  IF issue_now /\ ~is_resolvable(pc)
           THEN /\ tp_at' = "raised"
                /\ issue_cycle' = ic
                /\ UNCHANGED <<write_cycle, latency, cycle>>
           ELSE /\ issue_cycle' = ic
                /\ write_cycle' = wc
                /\ IF written \/ cycle + 1 >= MeasureCycles
                   THEN /\ tp_at' = "record"
                        /\ latency' = latency_of(ic, wc)
                        /\ UNCHANGED cycle
                   ELSE /\ tp_at' = "measure"
                        /\ cycle' = cycle + 1
                        /\ UNCHANGED latency
    /\ UNCHANGED <<recvars, tracevars, baseline, measure_calls, labels, writes>>

\* one edge of the measuring loop, test_cycle.py:160-199, with the values of
\* core_addr, core_stb, core_data_in and regfile[1] at the edge; line 176
\* sets issue_cycle and line 177 formats pc_val with :#010x, a TypeError
\* when core_addr is not resolvable
MeasureOnT(pc, stb, data, reg) ==
    /\ tp_at = "measure"
    /\ regfile_x1' = reg
    /\ LET issue_now == issue_cycle = None /\ issue_seen_T(data, stb)
           ic == IF issue_now THEN cycle ELSE issue_cycle
           written == ic # None /\ is_resolvable(reg) /\ reg # baseline
           wc == IF written THEN cycle ELSE write_cycle
       IN  IF issue_now /\ ~is_resolvable(pc)
           THEN /\ tp_at' = "raised"
                /\ issue_cycle' = ic
                /\ UNCHANGED <<write_cycle, latency, cycle>>
           ELSE /\ issue_cycle' = ic
                /\ write_cycle' = wc
                /\ IF written \/ cycle + 1 >= MeasureCycles
                   THEN /\ tp_at' = "record"
                        /\ latency' = latency_of(ic, wc)
                        /\ UNCHANGED cycle
                   ELSE /\ tp_at' = "measure"
                        /\ cycle' = cycle + 1
                        /\ UNCHANGED latency
    /\ UNCHANGED <<recvars, tracevars, baseline, measure_calls, labels, writes>>

\* one edge of the measuring loop, cycle.py:54-94
MeasureOnC(pc, stb, reg) ==
    /\ tp_at = "measure"
    /\ regfile_x1' = reg
    /\ LET issue_now == issue_cycle = None /\ issue_seen_C(pc, stb)
           ic == IF issue_now THEN cycle ELSE issue_cycle
           written == ic # None /\ is_resolvable(reg) /\ reg # baseline
           wc == IF written THEN cycle ELSE write_cycle
       IN  /\ issue_cycle' = ic
           /\ write_cycle' = wc
           /\ IF written \/ cycle + 1 >= MeasureCycles
              THEN /\ tp_at' = "record"
                   /\ latency' = latency_of(ic, wc)
                   /\ UNCHANGED cycle
              ELSE /\ tp_at' = "measure"
                   /\ cycle' = cycle + 1
                   /\ UNCHANGED latency
    /\ UNCHANGED <<recvars, tracevars, baseline, measure_calls, labels, writes>>

\* measure_pipeline_depth alone, on whatever the core shows at the edge
MeasureEdgeT ==
    /\ driver = "test_cycle"
    /\ \E pc \in {128, X}, stb \in BOOLEAN, data \in DataSet, reg \in RegSet \cup {X} :
        /\ core_addr' = pc /\ core_stb' = stb /\ core_data_in' = data
        /\ MeasureOnT(pc, stb, data, reg)
    /\ UNCHANGED <<jvars, tpframe>>

MeasureEdgeC ==
    /\ driver = "cycle"
    /\ \E pc \in {0, 128, X}, stb \in BOOLEAN, reg \in RegSet \cup {X} :
        /\ core_addr' = pc /\ core_stb' = stb
        /\ MeasureOnC(pc, stb, reg)
    /\ UNCHANGED core_data_in
    /\ UNCHANGED <<jvars, tpframe>>

\* verdict_T that takes the latencies up to 2 for a single cycle
verdict_T_upto2(d, lat) ==
    IF lat = None THEN replace_entry(d, "False", "False", 0, "False")
    ELSE IF lat = 1 \/ lat = 2 THEN replace_entry(d, "False", "False", 0, "True")
    ELSE IF lat > 1 THEN replace_entry(d, "False", "depth", lat, "False")
    ELSE replace_entry(d, "False", "False", 0, "False")

\* test_cycle.py:271-282: the entry of the processor for a latency
verdict_T(d, lat) ==
    IF lat = None THEN replace_entry(d, "False", "False", 0, "False")
    ELSE IF lat = 1 THEN replace_entry(d, "False", "False", 0, "True")
    ELSE IF lat > 1 THEN replace_entry(d, "False", "depth", lat, "False")
    ELSE replace_entry(d, "False", "False", 0, "False")

\* test_cycle.py:271-293: the verdict of the latency, then the write
RecordT ==
    /\ driver = "test_cycle" /\ tp_at = "record"
    /\ labels' = verdict_T(existing_data_of(labels), latency)
    /\ writes' = writes + 1
    /\ tp_at' = "done"
    /\ UNCHANGED <<busvars, core_data_in, cycle, recvars, tracevars, measvars,
                   measure_calls>>
    /\ UNCHANGED <<jvars, tpframe>>

\* cycle.py:160-182: no latency leaves existing_data as read; a latency
\* assigns into existing_data[processor_name] (a KeyError without the entry)
RecordC ==
    /\ driver = "cycle" /\ tp_at = "record"
    /\ LET d == existing_data_of(labels)
       IN  IF latency = None \/ latency < 1
           THEN /\ labels' = d
                /\ writes' = writes + 1
                /\ tp_at' = "done"
           ELSE IF ~d.has
           THEN /\ tp_at' = "raised"
                /\ UNCHANGED <<labels, writes>>
           ELSE /\ labels' = IF latency = 1
                             THEN update_entry(d, "False", "False", 0)
                             ELSE update_entry(d, "False", "depth", latency)
                /\ writes' = writes + 1
                /\ tp_at' = "done"
    /\ UNCHANGED <<busvars, core_data_in, cycle, recvars, tracevars, measvars,
                   measure_calls>>
    /\ UNCHANGED <<jvars, tpframe>>

TpNext ==
    \/ ObserveEdgeT \/ ObserveEdgeC \/ ClassifyT \/ ClassifyC
    \/ BaselineEdge \/ MeasureEdgeT \/ MeasureEdgeC \/ RecordT \/ RecordC

-----------------------------------------------------------------------------
(* Specifications                                                          *)

\* the signals test_pc_behavior assigns before its first await
\* (test_cycle.py:212-225, cycle.py:100-108)
StartWrites == {"core_ack", "core_data_in", "rst_n"}

\* the tasks it starts (test_cycle.py:216-221, cycle.py:103-104)
StartTasks == {"clock", "instr_mem_driver"}

\* test_pc_behavior has released the reset (test_cycle.py:227, cycle.py:110)
PtStarted ==
    /\ pt_at = "none" /\ regfile_candidates = 1
    /\ tasks = StartTasks /\ rst_n = 1 /\ tp_wrote = StartWrites

\* main.main's batch: the cores it submits (the subdirectories without '@')
MaxCores == 5
Cores == 1..MaxCores

\* main.py:224: ThreadPoolExecutor(max_workers=4)
max_workers == 4

\* a single test is no batch
BatchIdle ==
    /\ main_at = "idle"
    /\ futures = [c \in Cores |-> "none"]
    /\ reported = [c \in Cores |-> "none"]

\* the part of the state a specification does not move
TpIdle ==
    /\ tp_at = "done" /\ cycle = 0
    /\ prev_pc = None /\ last_change = None /\ first_pc_seen = None
    /\ change_cycles = <<>>
    /\ last_pc = None /\ n_resolved = 0 /\ n_changes = 0
    /\ regfile_x1 = X /\ baseline = None
    /\ issue_cycle = None /\ write_cycle = None /\ latency = None
    /\ measure_calls = 0
    /\ labels = File("json", TRUE, PlaceholderEntry, "kept")
    /\ writes = 0

InitJ ==
    JInit /\ DrvInit /\ driver = "test_cycle" /\ TpIdle /\ PtStarted /\ BatchIdle
InitDrv == JInit /\ DrvInit /\ TpIdle /\ PtStarted /\ BatchIdle
InitTp == JInit /\ DrvInit /\ TpInit /\ PtStarted /\ BatchIdle

\* encode_jal and the layout block's guarded call, on every immediate of ImmSet
SpecJ == InitJ /\ [][JNext]_vars

\* either responder, on every behaviour of the bus
SpecDrv == InitDrv /\ [][DrvNext]_vars

\* test_pc_behavior of either file, on every trace of the core's signals and
\* every state of the labels file
SpecTp == InitTp /\ [][TpNext]_vars

-----------------------------------------------------------------------------
(* test_cycle.py's test bench as a whole (test_pc_behavior, lines 216-221): *)
(* the responder and test_pc_behavior are resumed at the same rising       *)
(* edges and find the same bus there. What the responder drives at an edge *)
(* is on core_ack and core_data_in after it, so measure_pipeline_depth     *)
(* reads the word driven at an earlier edge.                               *)

\* the core under test only reads (core_we = 0), raises core_cyc and
\* core_stb together, and presents the addresses of PcSet
RunBusSet == {<<req, req, FALSE, addr>> : req \in BOOLEAN, addr \in PcSet \cup {X}}

\* lines 55-137: what the responder does at an edge with this bus
TDrvOn(cyc, stb, we, addr) ==
    \/ TDeliverOn(cyc, stb, we, addr)
    \/ TCheckOn(cyc, stb, we, addr)
    \/ TNoRequestOn(cyc, stb, we, addr)
    \/ TUnresolvedOn(cyc, stb, we, addr)
    \/ TSampleOn(cyc, stb, we, addr)

\* during the observation window the core's address is resolved (the
\* unresolved samples of the window are SpecTp's)
RunWindowSet == {b \in RunBusSet : is_resolvable(b[4])}

\* an edge of the observation window
RunObserveEdge ==
    /\ driver = "test_cycle"
    /\ \E b \in RunWindowSet :
        /\ BusInput(b[1], b[2], b[3], b[4])
        /\ TDrvOn(b[1], b[2], b[3], b[4])
        /\ ObserveOnT(b[4])
    /\ UNCHANGED <<jvars, ptvars, batchvars>>

\* the edge measure_pipeline_depth takes its baseline at
RunBaselineEdge ==
    /\ driver = "test_cycle"
    /\ \E b \in RunBusSet, reg \in RegSet \cup {X} :
        /\ BusInput(b[1], b[2], b[3], b[4])
        /\ TDrvOn(b[1], b[2], b[3], b[4])
        /\ BaselineOn(reg)
    /\ UNCHANGED <<jvars, ptvars, batchvars>>

\* the task the scheduler resumes first at an edge both wait for
Orders == {"instr_mem_driver", "test_pc_behavior"}

\* a read of dut.core_data_in.value (line 165) at an edge where the
\* responder assigns it (line 60), with the assignments applied as they
\* are made: the task resumed second finds what the first one assigned
read_at_edge_immediate(first, before, driven) ==
    IF first = "instr_mem_driver" THEN driven ELSE before

\* the same read with cocotb's scheduled writes: an assignment to .value is
\* applied once every task resumed by the edge has run, so the read finds
\* the value from before the edge whichever task is resumed first
read_at_edge(first, before, driven) == before

\* an edge of the measuring loop
RunMeasureEdge ==
    /\ driver = "test_cycle"
    /\ \E b \in RunBusSet, reg \in RegSet \cup {X}, first \in Orders :
        /\ BusInput(b[1], b[2], b[3], b[4])
        /\ TDrvOn(b[1], b[2], b[3], b[4])
        /\ MeasureOnT(b[4], b[2],
                      read_at_edge(first, core_data_in, core_data_in'), reg)
    /\ UNCHANGED <<jvars, ptvars, batchvars>>

\* the test ends when test_pc_behavior returns or raises
RunNext ==
    \/ RunObserveEdge \/ ClassifyT \/ RunBaselineEdge \/ RunMeasureEdge \/ RecordT

\* at the release of reset: the core has made no request yet, the labels
\* file is as generate_labels_file left it
InitRun ==
    /\ JInit /\ driver = "test_cycle" /\ BusInit /\ TDriverInit
    /\ TpInit /\ labels = File("json", TRUE, PlaceholderEntry, "kept")
    /\ PtStarted /\ BatchIdle

SpecRun == InitRun /\ [][RunNext]_vars

-----------------------------------------------------------------------------
(* The test from its first statement: cocotb_labeler.processor_test, which *)
(* calls cycle.py's test_pc_behavior, and test_cycle.py's test_pc_behavior *)
(* from its call on. The core's signals are free, as in SpecTp.            *)

MaxCandidates == 1

\* processor_test with the candidates looked at after the tasks were started
PtLoadOn_LateReturn(n) ==
    /\ pt_at = "load"
    /\ IF n = 0
       THEN /\ pt_at' = "aborted"
            /\ tasks' = StartTasks
            /\ UNCHANGED tp_at
       ELSE /\ pt_at' = "test"
            /\ tp_at' = "start"
            /\ UNCHANGED tasks
    /\ UNCHANGED <<rst_n, tp_wrote, labels, writes>>

\* cocotb_labeler.py:39-66; n is the length of regfile_candidates after the
\* read of {processor_name}_reg_file.json (0 also when the read failed)
PtLoadOn(n) ==
    /\ pt_at = "load"
    /\ IF n = 0
       THEN /\ pt_at' = "aborted"                \* line 57: return
            /\ UNCHANGED tp_at
       ELSE /\ pt_at' = "test"                   \* line 66: the call
            /\ tp_at' = "start"
    /\ UNCHANGED <<tasks, rst_n, tp_wrote, labels, writes>>

PtLoad ==
    /\ PtLoadOn(regfile_candidates)
    /\ UNCHANGED <<jvars, drvvars, cycle, recvars, tracevars, measvars,
                   measure_calls, regfile_candidates, batchvars>>

\* test_cycle.py:212-225 / cycle.py:100-109: the driven signals are cleared,
\* the clock and the responder are started, reset is asserted, and the task
\* waits for the Timer
StartTest ==
    /\ tp_at = "start"
    /\ core_ack' = 0 /\ core_data_in' = Word(0, 0)
    /\ tasks' = tasks \cup StartTasks
    /\ rst_n' = 0
    /\ tp_wrote' = tp_wrote \cup StartWrites
    /\ tp_at' = "reset"
    /\ UNCHANGED <<jvars, busvars, driver, layoutvars, pendvars, loops_done,
                   drv_at, check_i, drv_did>>
    /\ UNCHANGED <<cycle, recvars, tracevars, measvars, measure_calls, labels,
                   writes, pt_at, regfile_candidates, batchvars>>

\* test_cycle.py:227 / cycle.py:110: the Timer has expired
ReleaseReset ==
    /\ tp_at = "reset"
    /\ rst_n' = 1
    /\ tp_wrote' = tp_wrote \cup {"rst_n"}
    /\ tp_at' = "observe"
    /\ UNCHANGED <<jvars, drvvars>>
    /\ UNCHANGED <<cycle, recvars, tracevars, measvars, measure_calls, labels,
                   writes, pt_at, regfile_candidates, tasks, batchvars>>

\* cocotb_labeler.py:68-90, after test_pc_behavior has returned
PtBits ==
    /\ pt_at = "test" /\ tp_at = "done"
    /\ LET created == IF labels.state = "absent" THEN EmptyData ELSE labels
           d == existing_data_of(created)
       IN  IF d.has
           THEN /\ labels' = File("json", TRUE,
                                  [d.entry EXCEPT !.bits = "bits"], d.rest)
                /\ writes' = writes + 1
                /\ pt_at' = "done"
           ELSE /\ labels' = created             \* line 82: KeyError
                /\ writes' = writes
                /\ pt_at' = "raised"
    /\ UNCHANGED <<jvars, drvvars, tp_at, cycle, recvars, tracevars, measvars,
                   measure_calls, regfile_candidates, tasks, rst_n, tp_wrote,
                   batchvars>>

PtNext ==
    \/ PtLoad \/ StartTest \/ ReleaseReset \/ PtBits
    \/ ObserveEdgeT \/ ObserveEdgeC \/ ClassifyT \/ ClassifyC
    \/ BaselineEdge \/ MeasureEdgeT \/ MeasureEdgeC \/ RecordT \/ RecordC

\* before the first statement: nothing is driven, no task is started;
\* processor_test is the caller of cycle.py's test_pc_behavior
InitPt ==
    /\ JInit /\ DrvInit /\ TpLocals
    /\ regfile_candidates \in 0..MaxCandidates
    /\ tasks = {} /\ rst_n = X /\ tp_wrote = {}
    /\ IF driver = "cycle"
       THEN pt_at = "load" /\ tp_at = "idle"
       ELSE pt_at = "none" /\ tp_at = "start"
    /\ BatchIdle

SpecPt == InitPt /\ [][PtNext]_vars

-----------------------------------------------------------------------------
(* main.main's batch (main.py:224-240): every core's core_labeler call is  *)
(* submitted to a pool of max_workers threads and main prints one line per *)
(* future as it completes.                                                 *)

batchframe == <<jvars, drvvars, tpvars, ptvars>>

\* what core_labeler returns when it returns (main.py:107-172 has no return
\* with a value: the result is None)
core_labeler_result == None

\* lines 232-240 for a completed future: future.result() re-raises what the
\* call raised; result.returncode on None is an AttributeError; either is
\* caught by `except Exception` and printed as "{sub} failed"
report_of(state, result) ==
    IF state = "raised" THEN "failed"
    ELSE IF result = None THEN "failed"
    ELSE "processed"

\* lines 225-228: every core is submitted before the first result is read
Submit ==
    /\ main_at = "submit"
    /\ futures' = [c \in Cores |-> "queued"]
    /\ main_at' = "collect"
    /\ UNCHANGED <<reported, batchframe>>

\* a free worker thread takes a queued call
WorkerStart ==
    /\ main_at = "collect"
    /\ \E c \in Cores :
        /\ futures[c] = "queued"
        /\ Cardinality({d \in Cores : futures[d] = "running"}) < max_workers
        /\ futures' = [futures EXCEPT ![c] = "running"]
    /\ UNCHANGED <<main_at, reported, batchframe>>

\* core_labeler returns: at line 172 after a failed make, or off its end
WorkerReturn ==
    /\ \E c \in Cores :
        /\ futures[c] = "running"
        /\ futures' = [futures EXCEPT ![c] = "returned"]
    /\ UNCHANGED <<main_at, reported, batchframe>>

\* core_labeler is left by an exception (anything but the
\* CalledProcessError caught at line 170)
WorkerRaise ==
    /\ \E c \in Cores :
        /\ futures[c] = "running"
        /\ futures' = [futures EXCEPT ![c] = "raised"]
    /\ UNCHANGED <<main_at, reported, batchframe>>

\* CollectOn without the except clause: the exception of a run leaves main
CollectOn_Uncaught(c) ==
    /\ futures[c] \in {"returned", "raised"}
    /\ reported[c] = "none"
    /\ IF futures[c] = "raised"
       THEN main_at' = "crashed" /\ reported' = reported
       ELSE /\ reported' = [reported EXCEPT
                               ![c] = report_of(futures[c], core_labeler_result)]
            /\ main_at' = main_at

\* lines 230-240: as_completed yields a completed future
CollectOn(c) ==
    /\ futures[c] \in {"returned", "raised"}
    /\ reported[c] = "none"
    /\ reported' = [reported EXCEPT
                       ![c] = report_of(futures[c], core_labeler_result)]
    /\ main_at' = main_at

Collect ==
    /\ main_at = "collect"
    /\ \E c \in Cores : CollectOn(c)
    /\ UNCHANGED <<futures, batchframe>>

\* the loop and the with block end once every future was yielded
Finish ==
    /\ main_at = "collect"
    /\ \A c \in Cores : reported[c] # "none"
    /\ main_at' = "done"
    /\ UNCHANGED <<futures, reported, batchframe>>

BatchNext ==
    \/ Submit \/ WorkerStart \/ WorkerReturn \/ WorkerRaise \/ Collect \/ Finish

InitBatch ==
    /\ JInit /\ DrvInit /\ driver = "test_cycle" /\ TpIdle /\ PtStarted
    /\ main_at = "submit"
    /\ futures = [c \in Cores |-> "none"]
    /\ reported = [c \in Cores |-> "none"]

SpecBatch == InitBatch /\ [][BatchNext]_vars

-----------------------------------------------------------------------------
(* Claims                                                                  *)

IsTestCycle == driver = "test_cycle"
BusRequest == FetchRequest(core_cyc, core_stb, core_we)

\* jal x0, -24 = 0xFE9FF06F, the jump from start + 32 back to start + 8
JalMinus24 == Word(1, 2124410991)

\* the word the layout of a core that started at sa holds for address a
\* when ld loops have been closed
LayoutWord(a, sa, ld) ==
    CASE a = sa -> INSTR_A
      [] a = sa + 4 -> INSTR_B
      [] a \in {sa + 8 + 4 * k : k \in 0..5} -> NOP
      [] a = sa + 32 -> IF ld < required_loops THEN JalMinus24 ELSE NOP
      [] OTHER -> NOP

\* C1: a fetch request that the test_cycle.py responder samples at an edge
\* (it reaches the lookup of lines 97-137 with the address then on the bus)
\* is answered at the next edge: core_ack = 1 and core_data_in is the word
\* of the address sampled, whatever the bus shows at that next edge.
C1_OneCycleResponse ==
    [][(IsTestCycle /\ drv_did = "sample")
        => /\ drv_did' = "deliver"
           /\ core_ack' = 1
           /\ core_data_in' = LayoutWord(core_addr, start_addr, loops_done)]_vars

\* C1 witness: a delivery of INSTR_A while the bus already shows another address
C1_Witness ==
    /\ IsTestCycle /\ drv_did = "deliver" /\ core_ack = 1
    /\ core_data_in = INSTR_A /\ pending_addr = start_addr
    /\ BusRequest /\ core_addr = start_addr + 4

\* C2: core_ack is asserted for exactly one cycle per delivery: an edge at
\* which the test_cycle.py responder delivers (core_ack = 1) is followed by
\* an edge that leaves core_ack = 0, the delivery of the jump word included.
C2_AckOneCycle ==
    [][(IsTestCycle /\ drv_did = "deliver" /\ core_ack = 1) => core_ack' = 0]_vars

C4_NoAckUnresolved ==
    (driver = "cycle" /\ BusRequest /\ ~is_resolvable(core_addr)) => core_ack = 0

\* C5: the word the test_cycle.py responder queues, and the word it then
\* delivers, for address a is the word of the layout: INSTR_A at start_addr,
\* INSTR_B at start_addr + 4, NOP at start_addr + 8 .. start_addr + 28, the
\* jump word at branch_addr while loops_done < required_loops and NOP after,
\* NOP at finish_addr and at every other address.
C5_InstructionMap ==
    /\ (IsTestCycle /\ drv_did = "sample")
          => pending_instr = LayoutWord(core_addr, start_addr, loops_done)
    /\ (IsTestCycle /\ drv_did = "deliver")
          => core_data_in = LayoutWord(pending_addr, start_addr, loops_done)

\* C5 witness: the branch address served with NOP once the loops are done
C5_Witness ==
    /\ IsTestCycle /\ drv_did = "deliver" /\ pending_addr = branch_addr
    /\ loops_done = required_loops /\ core_data_in = NOP

\* C6: the layout is derived once, from the first address the responder
\* samples: loop_start = start_addr + 8, branch_addr = start_addr + 32,
\* finish_addr = start_addr + 36, the jump word goes from branch_addr to
\* loop_start, and none of the five changes afterwards.
C6_LayoutOnce ==
    /\ [](IsTestCycle /\ start_addr # None
            => /\ loop_start = start_addr + 8
               /\ branch_addr = start_addr + 32
               /\ finish_addr = start_addr + 36
               /\ jal_back = JalMinus24)
    /\ [](IsTestCycle /\ start_addr = None
            => drv_did \in {"init", "norequest", "unresolved"} /\ jal_back = NoWord)
    /\ [][(IsTestCycle /\ start_addr = None /\ drv_did' = "sample")
            => start_addr' = core_addr']_vars
    /\ [][(IsTestCycle /\ start_addr # None) => UNCHANGED layoutvars]_vars

\* C6 witness: a later request at another address, the layout still that of
\* the first address
C6_Witness ==
    /\ IsTestCycle /\ drv_did = "sample" /\ start_addr = 4 /\ core_addr = 0
    /\ loops_done = 0 /\ branch_addr = 36

Abs(n) == IF n < 0 THEN -n ELSE n

\* C8 as stated: encode_jal accepts imm iff |imm| < 2^20.
C8_AbsRange ==
    j_op = "encode_jal" => (~j_raised <=> Abs(j_imm) < Pow2(20))

\* C8 amended: encode_jal accepts imm iff -2^20 <= imm <= 2^20 - 1, the
\* signed 21-bit range, and returns a word exactly then.
C8_SignedRange ==
    j_op = "encode_jal"
      => /\ ~j_raised <=> (-1048576 <= j_imm /\ j_imm <= 1048575)
         /\ j_raised <=> j_word = NoWord

\* C8 witness: the lower boundary -2^20 is accepted
C8_Witness ==
    j_op = "encode_jal" /\ j_imm = -1048576 /\ ~j_raised /\ j_word # NoWord

\* the J-format fields of a word: opcode [6:0], rd [11:7],
\* imm[20|10:1|11|19:12] in bits [31|30:21|20|19:12]
DecOpcode(w) == w[2] % 128
DecRd(w) == (w[2] \div 128) % 32
DecImm(w) ==
    ((w[2] \div 2097152) % 1024) * 2
    + ((w[2] \div 1048576) % 2) * 2048
    + ((w[2] \div 4096) % 256) * 4096
    - w[1] * 1048576

\* C9: decoding the J-format fields of encode_jal(imm, rd) gives opcode
\* 0x6f, rd and imm back, for every accepted even imm; the word is none of
\* NOP, INSTR_A, INSTR_B; the layout block's jump word (rd = 0) decodes to
\* its immediate too.
C9_RoundTrip ==
    /\ (j_op \in {"encode_jal", "layout"} /\ ~j_raised /\ j_imm % 2 = 0)
          => /\ DecOpcode(j_word) = 111
             /\ DecRd(j_word) = j_rd
             /\ DecImm(j_word) = j_imm
             /\ j_word \notin {NOP, INSTR_A, INSTR_B}
    /\ (j_op = "layout" /\ ~j_raised) => j_jal_back = j_word

\* C9 witness: the immediate of the layout, loop_start - branch_addr = -24
C9_Witness ==
    j_op = "layout" /\ j_imm = -24 /\ j_rd = 0 /\ j_jal_back = JalMinus24

PastClassify == tp_at \notin {"observe", "classify"}
Candidate == pipelined_candidate(filtered_of(change_cycles))

\* C10: test_pc_behavior (either file) calls measure_pipeline_depth iff the
\* interval list is non-empty and all its intervals are 1; otherwise it
\* records multicycle = True, pipeline = False for the processor and never
\* calls measure_pipeline_depth.
C10_Branch ==
    PastClassify
      => /\ measure_calls > 0 <=> Candidate
         /\ ~Candidate => /\ measure_calls = 0
                          /\ labels.has
                          /\ labels.entry.multicycle = "True"
                          /\ labels.entry.pipeline = "False"

-----------------------------------------------------------------------------
(* The latency and its verdict                                             *)

\* the entry of the processor reads SingleCycle: neither multicycle nor
\* pipelined
SingleCycleVerdict ==
    labels.has /\ labels.entry.multicycle = "False" /\ labels.entry.pipeline = "False"

\* the entry of the processor reads Pipelined with depth d
PipelinedVerdict(d) ==
    /\ labels.has /\ labels.entry.multicycle = "False"
    /\ labels.entry.pipeline = "depth" /\ labels.entry.depth = d

BothObserved == issue_cycle # None /\ write_cycle # None
Measured == measure_calls > 0 /\ tp_at = "done"

\* C11: when both cycles are observed measure_pipeline_depth (either file)
\* returns write_cycle - issue_cycle + 1, and test_cycle.py's
\* test_pc_behavior writes SingleCycle (singlecycle = True, pipeline = False,
\* multicycle = False) for depth 1 and Pipelined with that depth for every
\* depth > 1.
C11_DepthVerdict ==
    /\ BothObserved => latency = write_cycle - issue_cycle + 1
    /\ (IsTestCycle /\ Measured /\ latency = 1)
          => SingleCycleVerdict /\ labels.entry.singlecycle = "True"
    /\ (IsTestCycle /\ Measured /\ latency # None /\ latency > 1)
          => PipelinedVerdict(latency) /\ labels.entry.singlecycle = "False"

\* C11 witness: issue and write in the same cycle, recorded as SingleCycle
C11_Witness ==
    /\ IsTestCycle /\ Measured /\ issue_cycle = 0 /\ write_cycle = 0
    /\ latency = 1 /\ labels.entry.singlecycle = "True"

MeasureRaised == IsTestCycle /\ tp_at = "raised"
MeasureEnded == measure_calls > 0 /\ tp_at \in {"record", "done", "raised"}

\* C13: measure_pipeline_depth returns None exactly when the issue cycle or
\* the register change after it was not observed within the budget; the
\* loop never runs past the budget; and with None test_pc_behavior writes
\* neither a SingleCycle nor a Pipelined verdict.
C13_NoneExactly ==
    /\ MeasureEnded
          => ((issue_cycle = None \/ write_cycle = None)
                <=> (~MeasureRaised /\ latency = None))
    /\ tp_at = "measure" => cycle < MeasureCycles
    /\ (Measured /\ latency = None)
          => ~(labels.has /\ (labels.entry.singlecycle = "True"
                              \/ labels.entry.pipeline = "depth"))

\* C14: test_cycle.py's measure_pipeline_depth never ends with an
\* exception, whatever values core_addr, core_data_in and regfile[1] take.
C14_Recoverable ==
    (IsTestCycle /\ measure_calls > 0) => tp_at # "raised"

\* C15: in test_cycle.py, when the issue cycle was observed and the write
\* cycle was not, the write leaves the pipeline and multicycle fields of the
\* processor's entry at the placeholder "Undetected" of generate_labels_file.
C15_KeepsPlaceholder ==
    [][(IsTestCycle /\ tp_at = "record" /\ issue_cycle # None /\ write_cycle = None
        /\ labels = File("json", TRUE, PlaceholderEntry, "kept"))
        => /\ labels'.entry.pipeline = "Undetected"
           /\ labels'.entry.multicycle = "Undetected"]_vars

-----------------------------------------------------------------------------
(* The recorder and the samples                                            *)

\* C16: a sample of core_addr that is not resolvable leaves prev_pc,
\* last_change, first_pc_seen and the interval list as they are, and while
\* all resolved samples carry the same address the interval list is empty.
C16_NoSpuriousTransition ==
    /\ [](n_changes = 0 => change_cycles = <<>>)
    /\ [][(tp_at = "observe" /\ ~is_resolvable(core_addr')) => UNCHANGED recvars]_vars

\* C16 witness: test_cycle.py, resolved at cycle 0, not resolvable at cycle
\* 1, the same address again at cycle 2, no interval
C16_Witness ==
    /\ IsTestCycle /\ tp_at = "observe" /\ cycle = 3 /\ n_resolved = 2
    /\ last_change = 0 /\ core_addr = prev_pc /\ change_cycles = <<>>

\* C17: the first resolved sample is no transition, and the number of
\* intervals is the number of later resolved samples whose address differs
\* from the resolved sample before them (k - 1 for k consecutive distinct
\* addresses).
C17_IntervalCount ==
    /\ n_resolved <= 1 => change_cycles = <<>>
    /\ Len(change_cycles) = n_changes

\* every resolved sample after the first differs from the one before it
Advancing == n_resolved >= 2 /\ n_changes = n_resolved - 1

\* C18: samples that are not resolvable do not enter the intervals: a core
\* whose resolved samples advance on every resolved sample has the intervals
\* of the same samples without the unresolved ones, every one of them 1 (as
\* a pipelined candidate needs).
C18_UnresolvedExcluded ==
    Advancing => \A k \in 1..Len(change_cycles) : change_cycles[k] = 1

\* C20: a baseline taken while regfile[1] is not resolvable is no value: the
\* first resolved non-zero value seen afterwards is not reported as a write.
C20_NoCoercion ==
    [][(tp_at = "measure" /\ cycle = 0 /\ ~is_resolvable(regfile_x1)
        /\ is_resolvable(regfile_x1') /\ regfile_x1' # 0)
        => write_cycle' = None]_vars

-----------------------------------------------------------------------------
(* The baseline and the first delivery                                     *)

\* the responder has delivered a word: core_data_in is 0 until then, and the
\* first word it delivers is INSTR_A (the first request gives start_addr)
Delivered == core_data_in # Word(0, 0)

\* C19: when measure_pipeline_depth is about to take the baseline of
\* regfile[1] for a pipelined candidate, the responder has not delivered
\* INSTR_A yet.
C19_BaselineFirst ==
    (IsTestCycle /\ tp_at = "baseline") => ~Delivered

-----------------------------------------------------------------------------
(* The loop-closure window                                                 *)

\* the bus shows, at the edge just taken, a fetch request for loop_start
JumpBackSeen ==
    /\ FetchRequest(core_cyc', core_stb', core_we')
    /\ is_resolvable(core_addr') /\ core_addr' = loop_start

\* C21: the window opens with the delivery of the jump word at branch_addr
\* and lasts at most jump_check_cycles edges; at an edge of the window
\* loops_done grows by 1 and the window closes iff the bus shows a fetch
\* request for loop_start, so it grows by exactly 1 per window in which the
\* jump back is seen and not at all otherwise; loops_done changes nowhere
\* else, and the window touches neither the layout nor anything of
\* test_pc_behavior.
C21_LoopClosure ==
    /\ [][(IsTestCycle /\ drv_at = "check")
            => /\ IF JumpBackSeen
                  THEN loops_done' = loops_done + 1 /\ drv_at' = "serve"
                  ELSE /\ loops_done' = loops_done
                       /\ IF check_i + 1 < jump_check_cycles
                          THEN drv_at' = "check" /\ check_i' = check_i + 1
                          ELSE drv_at' = "serve"
               /\ UNCHANGED <<layoutvars, tpvars>>]_vars
    /\ [][(IsTestCycle /\ drv_at # "check") => loops_done' = loops_done]_vars
    /\ [][(IsTestCycle /\ drv_at = "serve" /\ drv_at' = "check")
            => /\ drv_did' = "deliver" /\ core_data_in' = jal_back
               /\ pending_addr = branch_addr /\ check_i' = 0]_vars
    /\ [](IsTestCycle /\ drv_at = "check" => check_i < jump_check_cycles)

\* C21 witness: a window that ran out without the jump back: the twelfth
\* edge closed it, loops_done is still 0
C21_Witness ==
    /\ IsTestCycle /\ drv_did = "check" /\ drv_at = "serve"
    /\ loops_done = 0 /\ core_data_in = JalMinus24 /\ start_addr = 0

-----------------------------------------------------------------------------
(* The labels store                                                        *)

\* C22: a write of test_pc_behavior (either file) into a store that was a
\* JSON object leaves the entries of the other processors, and the other
\* keys of the processor's own entry, as the store held them.
C22_NonDestructive ==
    [][(writes' = writes + 1 /\ labels.state = "json")
        => /\ labels'.rest = labels.rest
           /\ labels.has => labels'.entry.other = labels.entry.other]_vars

\* C23: with cycle.py, whatever the labels file held (absent, not JSON, no
\* entry for the processor), neither test_pc_behavior nor processor_test is
\* left by an exception.
C23_NeverFatal ==
    driver = "cycle" => tp_at # "raised" /\ pt_at # "raised"

-----------------------------------------------------------------------------
(* processor_test                                                          *)

\* C24: when the list of register-file candidates is empty processor_test
\* returns with test_pc_behavior never called, no task started, no signal
\* assigned and the labels file as it was, which the steps of processor_test
\* up to the return leave as it was.
C24_AbortBeforeClassification ==
    /\ [](pt_at = "aborted"
            => /\ tp_at = "idle" /\ tasks = {} /\ tp_wrote = {}
               /\ rst_n = X /\ writes = 0 /\ regfile_candidates = 0)
    /\ [](pt_at = "load" /\ regfile_candidates = 0 => tp_at = "idle")
    /\ [][(pt_at \in {"load", "aborted"}) => labels' = labels]_vars
    /\ [][(pt_at = "load" /\ regfile_candidates = 0) => pt_at' = "aborted"]_vars

C24_Witness ==
    /\ pt_at = "aborted" /\ regfile_candidates = 0
    /\ labels = File("json", TRUE, PlaceholderEntry, "kept")
    /\ labels.entry.bits = "Undetected"

-----------------------------------------------------------------------------
(* Termination                                                             *)

\* the rising edges test_pc_behavior can still wait for, from where it is
EdgesLeft ==
    CASE tp_at \in {"idle", "start", "reset"} -> ObserveCycles + 1 + MeasureCycles
      [] tp_at = "observe" -> (ObserveCycles - cycle) + 1 + MeasureCycles
      [] tp_at \in {"classify", "baseline"} -> 1 + MeasureCycles
      [] tp_at = "measure" -> MeasureCycles - cycle
      [] OTHER -> 0

\* C25: test_cycle.py's test_pc_behavior ends, by return or by exception,
\* within ObserveCycles + 1 + MeasureCycles rising edges of the release of
\* reset whatever the core's signals are: every edge it waits for uses up one
\* of the edges left, the steps between edges add none, and it takes no
\* step once it has ended; the tasks it started are never ended.
C25_BoundedEdges ==
    /\ [](IsTestCycle => EdgesLeft \in 0..(ObserveCycles + 1 + MeasureCycles))
    /\ [][(IsTestCycle /\ tp_at \in {"observe", "baseline", "measure"})
            => EdgesLeft' < EdgesLeft]_vars
    /\ [][(IsTestCycle /\ tp_at \in {"reset", "classify", "record"})
            => EdgesLeft' <= EdgesLeft /\ UNCHANGED busvars]_vars
    /\ [][(IsTestCycle /\ tp_at \in {"done", "raised"})
            => tp_at' = tp_at /\ cycle' = cycle]_vars
    /\ [](IsTestCycle /\ tp_at \in {"observe", "baseline", "measure"}
            => ENABLED <<PtNext>>_vars)
    /\ [][tasks \subseteq tasks']_vars
    /\ [](IsTestCycle /\ tp_at \notin {"idle", "start"} => tasks = StartTasks)

C25_Witness ==
    /\ IsTestCycle /\ tp_at = "done" /\ measure_calls = 1
    /\ issue_cycle # None /\ write_cycle = None /\ tasks = StartTasks

-----------------------------------------------------------------------------
(* The verdict                                                             *)

\* the outcomes an entry of the labels file can stand for
OutcomeMulticycle(e) ==
    e.multicycle = "True" /\ e.pipeline = "False" /\ e.singlecycle # "True"
OutcomeSingleCycle(e) ==
    e.multicycle = "False" /\ e.pipeline = "False"
OutcomePipelined(e) ==
    e.multicycle = "False" /\ e.pipeline = "depth" /\ e.depth >= 2
    /\ e.singlecycle # "True"
OutcomeUndetermined(e) ==
    \/ e.multicycle = "False" /\ e.pipeline = "False" /\ e.singlecycle = "False"
    \/ e.multicycle = "Undetected" /\ e.pipeline = "Undetected"

\* C26: test_pc_behavior (either file), once it has ended, has written the
\* labels file exactly once, and the processor's entry stands for one
\* outcome: multicycle, single-cycle, pipelined with a depth of at least 2,
\* or undetermined; it never writes twice.
C26_VerdictOnce ==
    /\ writes <= 1
    /\ tp_at \in {"done", "raised"}
        => /\ writes = 1
           /\ labels.state = "json" /\ labels.has
           /\ \/ OutcomeMulticycle(labels.entry)
              \/ OutcomeSingleCycle(labels.entry)
              \/ OutcomePipelined(labels.entry)
              \/ OutcomeUndetermined(labels.entry)

-----------------------------------------------------------------------------
(* Who drives which signal                                                 *)

\* C27: of the signals of dut, test_cycle.py's test_pc_behavior and
\* measure_pipeline_depth assign rst_n only; core_ack and core_data_in are
\* left to the responder, and the core's own signals to the core.
C27_ExclusiveWriters ==
    IsTestCycle => tp_wrote \subseteq {"rst_n"}

-----------------------------------------------------------------------------
(* The two tasks at one edge                                               *)

-----------------------------------------------------------------------------
(* The batch                                                               *)

\* C29: main.main is never left by an exception of a core's run: whatever
\* the order in which the workers start, return and raise, a future that
\* holds an exception is collected like any other, every submitted core runs
\* to its end and gets a report of its own before main is done, and a report
\* once made is not changed by the other cores' runs.
C29_BatchIsolation ==
    /\ [](main_at # "crashed")
    /\ [](main_at = "done"
            => \A c \in Cores : /\ futures[c] \in {"returned", "raised"}
                                /\ reported[c] # "none")
    /\ [][\A c \in Cores :
            /\ reported[c] # "none" => reported'[c] = reported[c]
            /\ reported'[c] # reported[c]
                => /\ futures[c] \in {"returned", "raised"}
                   /\ \A o \in Cores \ {c} : reported'[o] = reported[o]
                   /\ futures' = futures /\ main_at' = "collect"]_vars

\* the batch is done, one run raised and another returned
C29_Witness ==
    /\ main_at = "done"
    /\ \E c, o \in Cores : futures[c] = "raised" /\ futures[o] = "returned"

-----------------------------------------------------------------------------
(* Warm-up                                                                 *)

\* C30: test_cycle.py's test_pc_behavior takes the samples of its
\* observation window, and classifies the core from them, only once the
\* responder has counted required_loops closures of the warm-up loop.
C30_ClassifiedAfterWarmup ==
    IsTestCycle /\ (n_resolved > 0 \/ tp_at \notin {"idle", "start", "reset", "observe"})
        => loops_done >= required_loops

-----------------------------------------------------------------------------
(* The responder's loop counter and its single outstanding response        *)

\* the jump word is queued for branch_addr
JumpQueued ==
    pending /\ pending_addr = branch_addr /\ pending_instr = jal_back

\* C31: in test_cycle.py's responder loops_done stays within
\* 0..required_loops and never decreases; it grows by one at a time, and
\* only at an edge of the window a delivered jump word opened, which that
\* edge closes; once it is required_loops no jump word is queued, the
\* window is not open, no delivery puts the jump word on core_data_in, and
\* a request at branch_addr queues NOP.
C31_LoopsDone ==
    /\ [](IsTestCycle => loops_done \in 0..required_loops)
    /\ [][IsTestCycle => loops_done' \in {loops_done, loops_done + 1}]_vars
    /\ [][(IsTestCycle /\ loops_done' = loops_done + 1)
            => drv_at = "check" /\ drv_at' = "serve"]_vars
    /\ [](IsTestCycle /\ loops_done = required_loops
            => ~JumpQueued /\ drv_at # "check")
    /\ [][(IsTestCycle /\ loops_done = required_loops /\ drv_did' = "deliver"
           /\ drv_at = "serve")
            => core_data_in' # jal_back]_vars
    /\ [][(IsTestCycle /\ loops_done = required_loops /\ drv_did' = "sample"
           /\ core_addr' = branch_addr)
            => pending_instr' = NOP]_vars

C31_Witness ==
    /\ IsTestCycle /\ loops_done = required_loops
    /\ drv_did = "deliver" /\ pending_addr = branch_addr
    /\ core_data_in = NOP /\ core_ack = 1

\* the responder is resumed with a read pending: the edge is a delivery
DeliveryEdge == IsTestCycle /\ drv_at = "serve" /\ pending

\* C32: in test_cycle.py's responder a read is never pending while core_ack
\* is 1; a delivery edge queues nothing, whatever request is on the bus at
\* it; and the edge after a delivery is not a delivery.
C32_OneOutstanding ==
    /\ [](IsTestCycle => ~(pending /\ core_ack = 1))
    /\ [][DeliveryEdge
            => /\ drv_did' = "deliver" /\ ~pending'
               /\ UNCHANGED <<pending_addr, pending_instr, layoutvars>>]_vars
    /\ [][DeliveryEdge => ~DeliveryEdge']_vars
    /\ [][(IsTestCycle /\ drv_did = "deliver") => drv_did' # "deliver"]_vars

\* a delivery edge with a request for another address on the bus
C32_Witness ==
    /\ IsTestCycle /\ drv_did = "deliver" /\ ~pending /\ core_ack = 1
    /\ BusRequest /\ is_resolvable(core_addr) /\ core_addr # pending_addr

\* the edges at which test_cycle.py's responder will not look for a new
\* request, from where it is: the delivery of what is pending, and the
\* window behind a jump word
EdgesToSample ==
    IF drv_at = "check" THEN jump_check_cycles - check_i
    ELSE IF JumpQueued THEN 1 + jump_check_cycles
    ELSE IF pending THEN 1
    ELSE 0

\* C33: in test_cycle.py's responder a request with a resolved address is
\* delivered no later than jump_check_cycles + 2 edges after the first edge
\* it is on the bus at, if the core holds it: at most jump_check_cycles + 1
\* edges pass without a look for a new request, each such edge uses one of
\* them up and queues nothing, the first edge after them queues the request
\* then on the bus, and what is queued is delivered at the next edge. An
\* edge of the window serves nothing, and the window is left after at most
\* jump_check_cycles edges.
C33_BoundedResponse ==
    /\ [](IsTestCycle => EdgesToSample \in 0..(jump_check_cycles + 1))
    /\ [][(IsTestCycle /\ EdgesToSample > 0)
            => EdgesToSample' < EdgesToSample /\ ~pending']_vars
    /\ [][(IsTestCycle /\ EdgesToSample = 0
           /\ FetchRequest(core_cyc', core_stb', core_we')
           /\ is_resolvable(core_addr'))
            => /\ drv_did' = "sample"
               /\ pending' /\ pending_addr' = core_addr']_vars
    /\ [][DeliveryEdge
            => /\ drv_did' = "deliver" /\ core_ack' = 1
               /\ core_data_in' = pending_instr
               /\ pending_addr' = pending_addr]_vars
    /\ [][(IsTestCycle /\ drv_at = "check")
            => /\ drv_did' = "check"
               /\ UNCHANGED <<core_ack, core_data_in, pendvars>>
               /\ (drv_at' = "check" => check_i' = check_i + 1)]_vars
    /\ [](IsTestCycle /\ drv_at = "check" => ~pending /\ check_i < jump_check_cycles)

\* the last edge of a window, with a request on the bus that is not the
\* jump back: it has waited the window out
C33_Witness ==
    /\ IsTestCycle /\ drv_did = "check" /\ drv_at = "serve"
    /\ loops_done = 0 /\ ~pending
    /\ BusRequest /\ is_resolvable(core_addr) /\ core_addr # loop_start

-----------------------------------------------------------------------------
(* The interval list                                                       *)

RECURSIVE SumSeq(_)
SumSeq(q) == IF q = <<>> THEN 0 ELSE Head(q) + SumSeq(Tail(q))

C35_EmptyIsMulticycle ==
    (PastClassify /\ change_cycles = <<>>)
        => /\ measure_calls = 0
           /\ tp_at = "done" /\ writes = 1
           /\ labels.has
           /\ labels.entry.multicycle = "True"
           /\ labels.entry.pipeline = "False"

-----------------------------------------------------------------------------
(* The measured latency                                                    *)

\* C36: in either file a write cycle is only ever set with the issue cycle
\* set and not before it; a latency that is a number comes from both, and
\* lies in 1..max_cycles; so test_pc_behavior never finds a latency below 1
\* when it records.
C36_LatencyRange ==
    /\ write_cycle # None
          => issue_cycle # None /\ issue_cycle <= write_cycle
    /\ issue_cycle # None => issue_cycle \in 0..(MeasureCycles - 1)
    /\ write_cycle # None => write_cycle \in 0..(MeasureCycles - 1)
    /\ latency # None
          => /\ issue_cycle # None /\ write_cycle # None
             /\ latency = write_cycle - issue_cycle + 1
             /\ latency \in 1..MeasureCycles
    /\ tp_at = "record" => (latency = None \/ latency >= 1)

\* the longest latency of the budget: issue at the first edge, the write at
\* the last
C36_Witness ==
    /\ tp_at = "done" /\ measure_calls = 1
    /\ issue_cycle = 0 /\ write_cycle = MeasureCycles - 1
    /\ latency = MeasureCycles

\* what the edge measure_pipeline_depth is resumed at shows
AddiAtEdge == core_data_in' = ADDI_X1_X0_5 /\ core_stb'
ChangeAtEdge == is_resolvable(regfile_x1') /\ regfile_x1' # baseline

-----------------------------------------------------------------------------
(* The batch's reports                                                     *)

\* C38: the report main.main makes for a core tells that core's outcome: a
\* core is reported as failed only if its core_labeler call raised, and a
\* core whose call returned is reported as processed.
C38_ReportTellsOutcome ==
    \A c \in Cores :
        /\ reported[c] = "failed" => futures[c] = "raised"
        /\ (reported[c] # "none" /\ futures[c] = "returned")
            => reported[c] = "processed"

====
